---- MODULE Spec2Model ----
(***************************************************************************)
(* Layered semantic memory of ChatGPT-Telegram-Workers:                    *)
(*   convex/memory.ts   upsertMemory, extractMemories, memoryContext       *)
(*   convex/schema.ts   the six layer tables and their by_user_hash index  *)
(*   packages/lib/core/src/memory/index.ts   shouldExtractMemory           *)
(* Strings that the code inspects character by character (memory texts,    *)
(* layer names, decimal renderings) are sequences of UTF-16 code units.    *)
(***************************************************************************)
EXTENDS Integers, Sequences, FiniteSets, TLC

VARIABLES
    tables,      \* table name -> rows of that table, in insertion order
    clock,       \* Date.now() of the Convex deployment
    lastUpsert,  \* history: the latest upsertMemory call and what it returned
    repeat,      \* history: set when a call repeats the payload of the call before it
    env,         \* process.env of the Convex deployment
    ex,          \* the extractMemories invocation in flight
    calls,       \* client calls made so far
    kv,          \* ENV.DATABASE: owner -> the entry under memory_extract:last:<owner>
    seconds,     \* Date.now() / 1000 of the worker
    ticks,       \* how often the worker's clock has advanced
    minInterval, \* ENV.MEMORY_EXTRACTION_MIN_INTERVAL_SECONDS
    gate,        \* the shouldExtractMemory calls in flight
    gateCalls,   \* shouldExtractMemory calls made so far
    grants,      \* history: owner -> the `now` of every call that returned true
    rq,          \* the memoryContext query in flight
    hm,          \* the texts handed to hashMemory and the strings it returned
    up,          \* the upsertMemory transactions in flight
    scheduled,   \* the extractMemories jobs the scheduler holds, not yet started
    acks,        \* history: what each autoExtractFromMessage call returned
    completion,  \* history: the layers of the query in flight, in the order their searches resolved
    qm,          \* the queueMemoryExtraction calls in flight
    memoryEnabled \* ENV.MEMORY_ENABLE && !!ENV.MEMORY_CONVEX_URL of the worker

storeVars == <<tables, clock, lastUpsert, repeat, env, ex, calls>>

gateVars == <<kv, seconds, ticks, minInterval, gate, gateCalls, grants>>

retrVars == <<rq>>

hashVars == <<hm>>

txnVars == <<up>>

schedVars == <<scheduled, acks>>

orderVars == <<completion>>

queueVars == <<qm, memoryEnabled>>

vars == <<storeVars, gateVars, retrVars, hashVars, txnVars, schedVars, orderVars, queueVars>>

\* What the steps of one part of the program leave alone.
OutsideStore == <<gateVars, retrVars, hashVars, txnVars, schedVars, orderVars, queueVars>>

OutsideGate == <<storeVars, retrVars, hashVars, txnVars, schedVars, orderVars, queueVars>>

OutsideRetrieval == <<storeVars, gateVars, hashVars, txnVars, schedVars, orderVars, queueVars>>

OutsideHash == <<storeVars, gateVars, retrVars, txnVars, schedVars, orderVars, queueVars>>

OutsideTxn == <<gateVars, retrVars, hashVars, schedVars, orderVars, queueVars>>

OutsideScheduler == <<gateVars, retrVars, hashVars, txnVars, orderVars, queueVars>>

OutsideQuery == <<storeVars, gateVars, hashVars, txnVars, schedVars, queueVars>>

OutsideWorker == <<storeVars, retrVars, hashVars, txnVars, schedVars, orderVars>>

(***************************************************************************)
(* Bounds of the model                                                     *)
(***************************************************************************)
MaxCalls == 3         \* upsertMemory calls by clients in one run
MaxExtractions == 2   \* extractMemories invocations in one run
MaxClock == 1         \* Date.now() stops advancing here
MaxTicks == 2         \* advances of the worker's clock in one run
MaxGateCalls == 3     \* shouldExtractMemory calls in one run
Epoch == 1700000000   \* the worker's clock, in seconds, when the run begins
MaxStored == 4        \* rows one owner has in a populated layer table

None == "<none>"
Undefined == "<undefined>"

(***************************************************************************)
(* Layer registry                                                          *)
(***************************************************************************)
layers == <<"identities", "preferences", "experiences", "activities", "contexts", "personas">>

Layers == {layers[i] : i \in 1..Len(layers)}

layerToTableShared(layer) ==
    CASE layer = "identities" -> "memoryIdentities"
      [] layer = "preferences" -> "memoryIdentities"
      [] layer = "experiences" -> "memoryExperiences"
      [] layer = "activities" -> "memoryActivities"
      [] layer = "contexts" -> "memoryContexts"
      [] layer = "personas" -> "memoryPersonas"

layerToTable(layer) ==
    CASE layer = "identities" -> "memoryIdentities"
      [] layer = "preferences" -> "memoryPreferences"
      [] layer = "experiences" -> "memoryExperiences"
      [] layer = "activities" -> "memoryActivities"
      [] layer = "contexts" -> "memoryContexts"
      [] layer = "personas" -> "memoryPersonas"

Tables == {layerToTable(l) : l \in Layers}

\* layers.includes(x)
LayersIncludes(x) == \E i \in 1..Len(layers) : layers[i] = x

\* The code units of a layer name, as `${layer}:` spells them.
LayerChars(layer) ==
    CASE layer = "identities" -> <<105, 100, 101, 110, 116, 105, 116, 105, 101, 115>>
      [] layer = "preferences" -> <<112, 114, 101, 102, 101, 114, 101, 110, 99, 101, 115>>
      [] layer = "experiences" -> <<101, 120, 112, 101, 114, 105, 101, 110, 99, 101, 115>>
      [] layer = "activities" -> <<97, 99, 116, 105, 118, 105, 116, 105, 101, 115>>
      [] layer = "contexts" -> <<99, 111, 110, 116, 101, 120, 116, 115>>
      [] layer = "personas" -> <<112, 101, 114, 115, 111, 110, 97, 115>>

(***************************************************************************)
(* hashMemory: trim, lower-case, 32-bit fold, decimal rendering            *)
(***************************************************************************)
\* White space that String.prototype.trim strips (the ASCII part and NBSP).
IsSpace(c) == c \in {9, 10, 11, 12, 13, 32, 160}

RECURSIVE TrimStart(_)
TrimStart(s) ==
    IF s # <<>> /\ IsSpace(Head(s)) THEN TrimStart(Tail(s)) ELSE s

RECURSIVE TrimEnd(_)
TrimEnd(s) ==
    IF s # <<>> /\ IsSpace(s[Len(s)]) THEN TrimEnd(SubSeq(s, 1, Len(s) - 1)) ELSE s

Trim(s) == TrimEnd(TrimStart(s))

\* toLowerCase on the Latin capitals.
LowerChar(c) == IF c >= 65 /\ c <= 90 THEN c + 32 ELSE c

ToLowerCaseMissing(s) == s

ToLowerCase(s) == [i \in 1..Len(s) |-> LowerChar(s[i])]

\* A 32-bit unsigned value is kept as two 16-bit halves, so that no
\* intermediate product leaves the range of the checker's integers.
Half == 65536

HashStep(h, c) ==
    LET t == h.lo * 31 + c
    IN  [hi |-> (h.hi * 31 + (t \div Half)) % Half, lo |-> t % Half]

RECURSIVE HashFold(_, _)
HashFold(h, s) ==
    IF s = <<>> THEN h ELSE HashFold(HashStep(h, Head(s)), Tail(s))

\* `${hash}`: the decimal digits of the unsigned value, most significant first,
\* as code units.
RECURSIVE ToDecimal(_)
ToDecimal(h) ==
    IF h.hi = 0 /\ h.lo < 10
    THEN <<48 + h.lo>>
    ELSE LET t == (h.hi % 10) * Half + h.lo
         IN  Append(ToDecimal([hi |-> h.hi \div 10, lo |-> t \div 10]), 48 + (t % 10))

hashMemory(layer, text) ==
    LET normalized == ToLowerCase(Trim(text))
        input == LayerChars(layer) \o <<58>> \o normalized
    IN  ToDecimal(HashFold([hi |-> 0, lo |-> 0], input))

\* Texts hashMemory is applied to: "Loves Coffee", "  loves coffee  ",
\* "LOVES COFFEE" between a tab and a line feed, "loves tea", "A", " a "
\* and the empty string.
LovesCoffee == <<76, 111, 118, 101, 115, 32, 67, 111, 102, 102, 101, 101>>

LovesCoffeePadded == <<32, 32, 108, 111, 118, 101, 115, 32, 99, 111, 102, 102, 101, 101, 32, 32>>

LovesCoffeeUpper == <<9, 76, 79, 86, 69, 83, 32, 67, 79, 70, 70, 69, 69, 10>>

LovesTea == <<108, 111, 118, 101, 115, 32, 116, 101, 97>>

HashTexts ==
    {LovesCoffee, LovesCoffeePadded, LovesCoffeeUpper, LovesTea, <<65>>, <<32, 97, 32>>, <<>>}

HmIdle(layer, t1, t2) ==
    [pc |-> "called", layer |-> layer, t1 |-> t1, t2 |-> t2, h1 |-> <<>>, h2 |-> <<>>]

InitHashWith(layerSet, texts) ==
    hm \in {HmIdle(l, t1, t2) : l \in layerSet, t1 \in texts, t2 \in texts}

\* hashMemory returns for both texts.
HashMemoryReturns ==
    /\ hm.pc = "called"
    /\ hm' = [hm EXCEPT !.pc = "returned",
                        !.h1 = hashMemory(hm.layer, hm.t1),
                        !.h2 = hashMemory(hm.layer, hm.t2)]
    /\ UNCHANGED OutsideHash

(***************************************************************************)
(* upsertMemory                                                            *)
(***************************************************************************)
\* .withIndex("by_user_hash", eq telegramUserId, eq hash).first():
\* the position of the first matching row, 0 when there is none.
FindByUserHashNoMatch(rows, user, hash) == 0

FindByUserHash(rows, user, hash) ==
    LET hits == {i \in 1..Len(rows) :
                    rows[i].telegramUserId = user /\ rows[i].hash = hash}
    IN  IF hits = {} THEN 0 ELSE CHOOSE i \in hits : \A j \in hits : i <= j

\* ctx.db.patch(existing._id, {text, abstract, tags, embedding, updatedAt})
PatchRowReplacesDocument(row, payload, now) ==
    [row EXCEPT !.sourceChatId = payload.sourceChatId,
                !.sourceMessageId = payload.sourceMessageId,
                !.text = payload.text,
                !.abstract = payload.abstract,
                !.tags = payload.tags,
                !.embedding = payload.embedding,
                !.createdAt = now,
                !.updatedAt = now]

PatchRow(row, payload, now) ==
    [row EXCEPT !.text = payload.text,
                !.abstract = payload.abstract,
                !.tags = payload.tags,
                !.embedding = payload.embedding,
                !.updatedAt = now]

\* The document ctx.db.insert writes.
NewRow(payload, now) ==
    [telegramUserId |-> payload.telegramUserId,
     sourceChatId |-> payload.sourceChatId,
     sourceMessageId |-> payload.sourceMessageId,
     text |-> payload.text,
     abstract |-> payload.abstract,
     tags |-> payload.tags,
     embedding |-> payload.embedding,
     hash |-> payload.hash,
     createdAt |-> now,
     updatedAt |-> now]

\* The handler of upsertMemory, a Convex mutation: it runs as one
\* transaction.  Gives the tables after the call and the value returned.
UpsertHandlerReportsInserted(tabs, payload, now) ==
    LET table == layerToTable(payload.layer)
        rows == tabs[table]
        at == FindByUserHash(rows, payload.telegramUserId, payload.hash)
    IN  IF at # 0
        THEN [tables |-> [tabs EXCEPT ![table][at] = PatchRow(rows[at], payload, now)],
              returned |-> "inserted"]
        ELSE [tables |-> [tabs EXCEPT ![table] = Append(rows, NewRow(payload, now))],
              returned |-> "inserted"]

UpsertHandler(tabs, payload, now) ==
    LET table == layerToTable(payload.layer)
        rows == tabs[table]
        at == FindByUserHash(rows, payload.telegramUserId, payload.hash)
    IN  IF at # 0
        THEN [tables |-> [tabs EXCEPT ![table][at] = PatchRow(rows[at], payload, now)],
              returned |-> "updated"]
        ELSE [tables |-> [tabs EXCEPT ![table] = Append(rows, NewRow(payload, now))],
              returned |-> "inserted"]

\* The rows of the table of a layer.
RowsOf(tabs, layer) == tabs[layerToTable(layer)]

\* Rows of a layer table that carry the pair (user, hash).
RowsFor(rows, user, hash) ==
    {i \in 1..Len(rows) : rows[i].telegramUserId = user /\ rows[i].hash = hash}

\* The fields a patch assigns, as stored for the payload's key.
StoredContent(tabs, payload) ==
    LET rows == RowsOf(tabs, payload.layer)
        at == FindByUserHash(rows, payload.telegramUserId, payload.hash)
    IN  IF at = 0 THEN <<>>
        ELSE <<[text |-> rows[at].text, abstract |-> rows[at].abstract,
                tags |-> rows[at].tags, embedding |-> rows[at].embedding]>>

\* History of consecutive calls: what the call before reported and stored,
\* when the present call carries the very same payload.  Both histories
\* are sequences of at most one entry.
RepeatOf(prev, payload, out) ==
    IF prev # <<>> /\ prev[1].payload = payload
    THEN <<[payload |-> payload,
            existedBeforeFirst |-> prev[1].existed,
            first |-> prev[1].returned,
            second |-> out.returned,
            contentAfterFirst |-> prev[1].content,
            contentAfterSecond |-> StoredContent(out.tables, payload),
            rowsAfterSecond |-> Cardinality(RowsFor(RowsOf(out.tables, payload.layer),
                                                    payload.telegramUserId, payload.hash))]>>
    ELSE <<>>

\* `existed`: whether the table held the payload's pair when the call began.
CallRecord(payload, out, existed) ==
    <<[payload |-> payload, returned |-> out.returned, existed |-> existed,
       content |-> StoredContent(out.tables, payload)]>>

(***************************************************************************)
(* Inputs                                                                  *)
(***************************************************************************)
Users == {"u1", "u2"}

TextA == <<65>>                 \* "A"
TextPadded == <<32, 97, 32>>    \* " a "
TextB == <<66>>                 \* "B"
TextC == <<99>>                 \* "c"
EmptyText == <<>>               \* ""

Embeddings == {<<1, 0>>, <<0, 1>>}

\* Payloads of direct upsertMemory calls (UpsertPayload admits exactly the
\* six registered layers; two of them are exercised).
UpsertLayers == {"identities", "preferences"}

UpsertHashes == {hashMemory("identities", TextA), <<49>>}

\* What a client has made of one message: where it was seen and the memory
\* drawn from it.
Sightings ==
    {[sourceChatId |-> "c1", sourceMessageId |-> "m1", text |-> TextA,
      abstract |-> TextA, tags |-> <<>>, embedding |-> <<1, 0>>],
     [sourceChatId |-> "c2", sourceMessageId |-> "m2", text |-> TextPadded,
      abstract |-> TextB, tags |-> <<"t">>, embedding |-> <<0, 1>>]}

UpsertPayloads ==
    {[layer |-> l,
      telegramUserId |-> u,
      sourceChatId |-> s.sourceChatId,
      sourceMessageId |-> s.sourceMessageId,
      text |-> s.text,
      abstract |-> s.abstract,
      tags |-> s.tags,
      embedding |-> s.embedding,
      hash |-> h] : l \in UpsertLayers, u \in Users, s \in Sightings, h \in UpsertHashes}

\* Candidate items an extraction response may carry.
ItemA == [layer |-> "identities", text |-> TextA, abstract |-> TextA, tags |-> <<>>]
ItemPadded == [layer |-> "identities", text |-> TextPadded, abstract |-> TextA, tags |-> <<"t">>]
ItemBogus == [layer |-> "bogus", text |-> TextB, abstract |-> TextB, tags |-> <<>>]
ItemEmptyText == [layer |-> "preferences", text |-> EmptyText, abstract |-> TextC, tags |-> <<>>]

\* message.content of the chat completion: absent, or one of these bodies.
Contents ==
    {Undefined, "", "not json", "{}", "{items:[]}", "{items:[A,bogus]}",
     "{items:[bogus,padded,emptytext]}"}

\* JSON.parse on the bodies above: `threw` for a SyntaxError, else the
\* parsed object, `hasItems` telling whether it has the key "items".
Parsed(hasItems, items) == [threw |-> FALSE, hasItems |-> hasItems, items |-> items]

ParseError == [threw |-> TRUE, hasItems |-> FALSE, items |-> <<>>]

JSONParse(content) ==
    CASE content = "{}" -> Parsed(FALSE, <<>>)
      [] content = "{items:[]}" -> Parsed(TRUE, <<>>)
      [] content = "{items:[A,bogus]}" -> Parsed(TRUE, <<ItemA, ItemBogus>>)
      [] content = "{items:[bogus,padded,emptytext]}" ->
            Parsed(TRUE, <<ItemBogus, ItemPadded, ItemEmptyText>>)
      [] OTHER -> ParseError

\* parsed.items || []
ItemsOrEmpty(parsed) == IF parsed.hasItems THEN parsed.items ELSE <<>>

\* !content
Falsy(content) == content = Undefined \/ content = ""

\* a || b on strings
OrElse(a, b) == IF a = <<>> THEN b ELSE a

Responses ==
    {[ok |-> FALSE, content |-> Undefined]} \cup [ok : {TRUE}, content : Contents]

ExtractionPayloads ==
    [telegramUserId : Users, sourceChatId : {"c1"}, sourceMessageId : {"m2"}]

\* What fetchEmbedding may come back with: a vector, the `|| []` fallback,
\* or a non-ok status.
EmbedOutcomes ==
    [ok : {TRUE}, embedding : Embeddings \cup {<<>>}]
    \cup {[ok |-> FALSE, embedding |-> <<>>]}

NoPayload == [telegramUserId |-> None, sourceChatId |-> None, sourceMessageId |-> None]

ExIdle ==
    [pc |-> "idle", payload |-> NoPayload, status |-> None, content |-> None,
     items |-> <<>>, idx |-> 0, inserted |-> 0, embedding |-> <<>>,
     error |-> None, writes |-> 0, embeds |-> 0, before |-> <<>>]

Fail(e, why) == [e EXCEPT !.pc = "failed", !.error = why]

(***************************************************************************)
(* Initial state of the store                                              *)
(***************************************************************************)
EmptyTables == [t \in Tables |-> <<>>]

InitStoreWith(tabs, keys) ==
    /\ tables = tabs
    /\ clock = 0
    /\ lastUpsert = <<>>
    /\ repeat = <<>>
    /\ env \in [OPENROUTER_API_KEY : keys]
    /\ ex = ExIdle
    /\ calls = 0

(***************************************************************************)
(* Actions of the store                                                    *)
(***************************************************************************)
\* Date.now() advances.
Tick ==
    /\ clock < MaxClock
    /\ clock' = clock + 1
    /\ UNCHANGED <<tables, lastUpsert, repeat, env, ex, calls>>
    /\ UNCHANGED OutsideStore

\* The effect of one upsertMemory transaction on the store and its history.
ApplyUpsert(payload) ==
    LET out == UpsertHandler(tables, payload, clock)
    IN  /\ tables' = out.tables
        /\ lastUpsert' = CallRecord(payload, out,
                RowsFor(RowsOf(tables, payload.layer), payload.telegramUserId, payload.hash) # {})
        /\ repeat' = RepeatOf(lastUpsert, payload, out)

\* A client calls the mutation upsertMemory.
UpsertMemory(payload) ==
    /\ calls < MaxCalls
    /\ calls' = calls + 1
    /\ ApplyUpsert(payload)
    /\ UNCHANGED <<clock, env, ex>>
    /\ UNCHANGED OutsideStore

\* extractMemories is invoked; the credential is read first.
ExtractStart(payload) ==
    /\ ex.pc = "idle"
    /\ calls < MaxExtractions
    /\ calls' = calls + 1
    /\ LET e == [ExIdle EXCEPT !.payload = payload, !.before = <<tables>>]
       IN  ex' = IF env.OPENROUTER_API_KEY
                 THEN [e EXCEPT !.pc = "fetch"]
                 ELSE Fail(e, "config")
    /\ UNCHANGED <<tables, clock, lastUpsert, repeat, env>>
    /\ UNCHANGED OutsideStore

\* The chat-completions request settles; `status` keeps response.ok.
StatusOf(response) == IF response.ok THEN "ok" ELSE "not ok"

ExtractFetchIgnoresStatus(response) ==
    /\ ex.pc = "fetch"
    /\ ex' = [ex EXCEPT !.pc = "parse", !.status = StatusOf(response),
                        !.content = response.content]
    /\ UNCHANGED <<tables, clock, lastUpsert, repeat, env, calls>>
    /\ UNCHANGED OutsideStore

ExtractFetch(response) ==
    /\ ex.pc = "fetch"
    /\ ex' = IF ~response.ok
             THEN Fail([ex EXCEPT !.status = StatusOf(response)], "provider")
             ELSE [ex EXCEPT !.pc = "parse", !.status = StatusOf(response),
                             !.content = response.content]
    /\ UNCHANGED <<tables, clock, lastUpsert, repeat, env, calls>>
    /\ UNCHANGED OutsideStore

\* Lines 168-178: the content guard, JSON.parse, `parsed.items || []`.
ExtractParseLenient ==
    /\ ex.pc = "parse"
    /\ ex' = IF Falsy(ex.content) \/ JSONParse(ex.content).threw
             THEN [ex EXCEPT !.pc = "done"]
             ELSE [ex EXCEPT !.pc = "loop", !.idx = 1,
                             !.items = ItemsOrEmpty(JSONParse(ex.content))]
    /\ UNCHANGED <<tables, clock, lastUpsert, repeat, env, calls>>
    /\ UNCHANGED OutsideStore

ExtractParse ==
    /\ ex.pc = "parse"
    /\ ex' = IF Falsy(ex.content)
             THEN [ex EXCEPT !.pc = "done"]
             ELSE LET parsed == JSONParse(ex.content)
                  IN  IF parsed.threw
                      THEN Fail(ex, "parse")
                      ELSE [ex EXCEPT !.pc = "loop", !.idx = 1,
                                      !.items = ItemsOrEmpty(parsed)]
    /\ UNCHANGED <<tables, clock, lastUpsert, repeat, env, calls>>
    /\ UNCHANGED OutsideStore

\* Head of the for loop: leave it, skip an unregistered layer, or call
\* fetchEmbedding (which reads the credential again).
ExtractLoopCountsSkipped ==
    /\ ex.pc = "loop"
    /\ ex' = IF ex.idx > Len(ex.items)
             THEN [ex EXCEPT !.pc = "done"]
             ELSE IF ~LayersIncludes(ex.items[ex.idx].layer)
             THEN [ex EXCEPT !.idx = @ + 1, !.inserted = @ + 1]
             ELSE IF ~env.OPENROUTER_API_KEY
             THEN Fail(ex, "config")
             ELSE [ex EXCEPT !.pc = "embed", !.embeds = @ + 1]
    /\ UNCHANGED <<tables, clock, lastUpsert, repeat, env, calls>>
    /\ UNCHANGED OutsideStore

ExtractLoop ==
    /\ ex.pc = "loop"
    /\ ex' = IF ex.idx > Len(ex.items)
             THEN [ex EXCEPT !.pc = "done"]
             ELSE IF ~LayersIncludes(ex.items[ex.idx].layer)
             THEN [ex EXCEPT !.idx = @ + 1]
             ELSE IF ~env.OPENROUTER_API_KEY
             THEN Fail(ex, "config")
             ELSE [ex EXCEPT !.pc = "embed", !.embeds = @ + 1]
    /\ UNCHANGED <<tables, clock, lastUpsert, repeat, env, calls>>
    /\ UNCHANGED OutsideStore

\* The embeddings request settles.
ExtractEmbedSkipsFailed(outcome) ==
    /\ ex.pc = "embed"
    /\ ex' = IF ~outcome.ok
             THEN [ex EXCEPT !.pc = "loop", !.idx = @ + 1]
             ELSE [ex EXCEPT !.pc = "upsert", !.embedding = outcome.embedding]
    /\ UNCHANGED <<tables, clock, lastUpsert, repeat, env, calls>>
    /\ UNCHANGED OutsideStore

ExtractEmbed(outcome) ==
    /\ ex.pc = "embed"
    /\ ex' = IF ~outcome.ok
             THEN Fail(ex, "embedding")
             ELSE [ex EXCEPT !.pc = "upsert", !.embedding = outcome.embedding]
    /\ UNCHANGED <<tables, clock, lastUpsert, repeat, env, calls>>
    /\ UNCHANGED OutsideStore

\* The payload handed to ctx.runMutation(upsertMemory) for the current item.
ItemPayload(e) ==
    LET item == e.items[e.idx]
    IN  [layer |-> item.layer,
         telegramUserId |-> e.payload.telegramUserId,
         sourceChatId |-> e.payload.sourceChatId,
         sourceMessageId |-> e.payload.sourceMessageId,
         text |-> item.text,
         abstract |-> item.abstract,
         tags |-> item.tags,
         embedding |-> e.embedding,
         hash |-> hashMemory(item.layer, OrElse(item.text, item.abstract))]

\* ctx.runMutation(upsertMemory) commits, then `inserted += 1`.
ExtractUpsert ==
    /\ ex.pc = "upsert"
    /\ ApplyUpsert(ItemPayload(ex))
    /\ ex' = [ex EXCEPT !.pc = "loop", !.idx = @ + 1, !.inserted = @ + 1,
                        !.writes = @ + 1, !.embedding = <<>>]
    /\ UNCHANGED <<clock, env, calls>>
    /\ UNCHANGED OutsideStore

\* ctx.runMutation(upsertMemory) rejects; nothing is committed.
ExtractUpsertFails ==
    /\ ex.pc = "upsert"
    /\ ex' = Fail(ex, "upsert")
    /\ UNCHANGED <<tables, clock, lastUpsert, repeat, env, calls>>
    /\ UNCHANGED OutsideStore

\* The invocation has settled and its outcome is consumed.
ExtractReturn ==
    /\ ex.pc \in {"done", "failed"}
    /\ ex' = ExIdle
    /\ UNCHANGED <<tables, clock, lastUpsert, repeat, env, calls>>
    /\ UNCHANGED OutsideStore

(***************************************************************************)
(* autoExtractFromMessage: the extraction is handed to the scheduler       *)
(***************************************************************************)
InitSchedulerWith(jobs) ==
    /\ scheduled = jobs
    /\ acks = <<>>

\* Lines 242-243, one mutation: ctx.scheduler.runAfter(0, extractMemories)
\* takes the job, and {queued: true} is returned.  A job scheduled by a
\* mutation starts only after the mutation has committed.
AutoExtractFromMessageAwaits(payload) ==
    /\ calls < MaxExtractions
    /\ calls' = calls + 1
    /\ scheduled' = Append(scheduled, payload)
    /\ UNCHANGED acks
    /\ UNCHANGED <<tables, clock, lastUpsert, repeat, env, ex>>
    /\ UNCHANGED OutsideScheduler

AutoExtractFromMessage(payload) ==
    /\ calls < MaxExtractions
    /\ calls' = calls + 1
    /\ scheduled' = Append(scheduled, payload)
    /\ acks' = Append(acks, [payload |-> payload, returned |-> "queued"])
    /\ UNCHANGED <<tables, clock, lastUpsert, repeat, env, ex>>
    /\ UNCHANGED OutsideScheduler

\* The sequence without its n-th entry.
Without(seq, n) == SubSeq(seq, 1, n - 1) \o SubSeq(seq, n + 1, Len(seq))

\* The scheduler starts one of the jobs it holds: extractMemories is
\* invoked with the job's payload and reads the credential first.
ScheduledExtractStart(n) ==
    /\ ex.pc = "idle"
    /\ n \in 1..Len(scheduled)
    /\ scheduled' = Without(scheduled, n)
    /\ LET e == [ExIdle EXCEPT !.payload = scheduled[n], !.before = <<tables>>]
       IN  ex' = IF env.OPENROUTER_API_KEY
                 THEN [e EXCEPT !.pc = "fetch"]
                 ELSE Fail(e, "config")
    /\ UNCHANGED acks
    /\ UNCHANGED <<tables, clock, lastUpsert, repeat, env, calls>>
    /\ UNCHANGED OutsideScheduler

(***************************************************************************)
(* upsertMemory calls that overlap.  A Convex mutation is a transaction:   *)
(* the handler runs against a snapshot, its writes are buffered, and the   *)
(* commit goes through only if nothing it read has been written since;     *)
(* otherwise the handler is run again.                                     *)
(***************************************************************************)
Txns == {"t1", "t2"}

\* Calls that may overlap: all of one owner and on the table of one layer.
ConcurrentPayloads ==
    {p \in UpsertPayloads : p.layer = "identities" /\ p.telegramUserId = "u1"}

\* What the by_user_hash query of the handler has read: the rows of the
\* index range (telegramUserId, hash), by position.
RangeRead(tabs, payload) ==
    LET rows == RowsOf(tabs, payload.layer)
    IN  [i \in RowsFor(rows, payload.telegramUserId, payload.hash) |-> rows[i]]

UpIdle ==
    [pc |-> "idle", payload |-> NoPayload, now |-> 0, at |-> 0, read |-> <<>>,
     returned |-> None, runs |-> 0]

InitTxnWith(idle) == up = [t \in Txns |-> idle]

\* A client calls the mutation.
UpsertCall(t, payload) ==
    /\ up[t].pc = "idle"
    /\ calls < MaxCalls
    /\ calls' = calls + 1
    /\ up' = [up EXCEPT ![t] = [UpIdle EXCEPT !.pc = "run", !.payload = payload]]
    /\ UNCHANGED <<tables, clock, lastUpsert, repeat, env, ex>>
    /\ UNCHANGED OutsideTxn

\* Lines 106-136 run against the present state: Date.now(), the index
\* lookup, and the patch or insert it decides on, which is buffered.
UpsertRun(t) ==
    /\ up[t].pc = "run"
    /\ LET p == up[t].payload
           at == FindByUserHash(RowsOf(tables, p.layer), p.telegramUserId, p.hash)
       IN  up' = [up EXCEPT ![t].pc = "commit", ![t].now = clock, ![t].at = at,
                            ![t].read = <<RangeRead(tables, p)>>,
                            ![t].returned = IF at # 0 THEN "updated" ELSE "inserted",
                            ![t].runs = @ + 1]
    /\ UNCHANGED storeVars
    /\ UNCHANGED OutsideTxn

\* The buffered write of a transaction, applied.
BufferedWrite(tabs, u) ==
    LET table == layerToTable(u.payload.layer)
    IN  IF u.at # 0
        THEN [tabs EXCEPT ![table][u.at] = PatchRow(tabs[table][u.at], u.payload, u.now)]
        ELSE [tabs EXCEPT ![table] = Append(tabs[table], NewRow(u.payload, u.now))]

\* The transaction tries to commit: it does when the index range it read is
\* as it read it, and is sent back to run again when it is not.
UpsertCommitUnchecked(t) ==
    /\ up[t].pc = "commit"
    /\ LET u == up[t]
           after == BufferedWrite(tables, u)
       IN  /\ tables' = after
           /\ lastUpsert' = CallRecord(u.payload, [tables |-> after, returned |-> u.returned],
                                       u.at # 0)
           /\ up' = [up EXCEPT ![t].pc = "returned"]
    /\ UNCHANGED <<clock, repeat, env, ex, calls>>
    /\ UNCHANGED OutsideTxn

UpsertCommit(t) ==
    /\ up[t].pc = "commit"
    /\ LET u == up[t]
           after == BufferedWrite(tables, u)
       IN  IF RangeRead(tables, u.payload) = u.read[1]
           THEN /\ tables' = after
                /\ lastUpsert' = CallRecord(u.payload,
                                            [tables |-> after, returned |-> u.returned],
                                            u.at # 0)
                /\ up' = [up EXCEPT ![t].pc = "returned"]
           ELSE /\ up' = [up EXCEPT ![t].pc = "run"]
                /\ UNCHANGED <<tables, lastUpsert>>
    /\ UNCHANGED <<clock, repeat, env, ex, calls>>
    /\ UNCHANGED OutsideTxn

\* The client has taken the value returned.
UpsertSettled(t) ==
    /\ up[t].pc = "returned"
    /\ up' = [up EXCEPT ![t] = UpIdle]
    /\ UNCHANGED storeVars
    /\ UNCHANGED OutsideTxn

(***************************************************************************)
(* shouldExtractMemory: the per-owner rate gate on the worker's KV store   *)
(***************************************************************************)
GateCalls == {"g1", "g2"}

\* Values ENV.MEMORY_EXTRACTION_MIN_INTERVAL_SECONDS is configured with.
Intervals == {0, 60}

\* Seconds by which the worker's clock advances between two events.
TickSteps == {1, 59}

\* `${now}`: the decimal digits of a non-negative integer, as code units.
RECURSIVE ToDec(_)
ToDec(n) == IF n < 10 THEN <<48 + n>> ELSE Append(ToDec(n \div 10), 48 + (n % 10))

\* Number.parseInt(s, 10) on a string of decimal digits.
RECURSIVE ParseInt(_)
ParseInt(s) ==
    IF s = <<>> THEN 0 ELSE ParseInt(SubSeq(s, 1, Len(s) - 1)) * 10 + (s[Len(s)] - 48)

\* A key that was never put, as an entry.
NoEntry == [value |-> <<>>, expires |-> 0]

\* ENV.DATABASE.get(key): null (here the empty string) once the entry's
\* expirationTtl has run out or when the key was never put.
KvGet(entry, at) == IF at < entry.expires THEN entry.value ELSE <<>>

\* value || '0'
OrZero(value) == IF value = <<>> THEN <<48>> ELSE value

GateIdle ==
    [pc |-> "idle", user |-> None, last |-> 0, now |-> 0, result |-> FALSE,
     readFailed |-> FALSE, seen |-> <<>>]

InitGateWith(intervals) ==
    /\ kv = [u \in Users |-> NoEntry]
    /\ seconds = Epoch
    /\ ticks = 0
    /\ minInterval \in intervals
    /\ gate = [c \in GateCalls |-> GateIdle]
    /\ gateCalls = 0
    /\ grants = [u \in Users |-> <<>>]

\* The worker's clock advances.
TickSeconds(d) ==
    /\ ticks < MaxTicks
    /\ ticks' = ticks + 1
    /\ seconds' = seconds + d
    /\ UNCHANGED <<kv, minInterval, gate, gateCalls, grants>>
    /\ UNCHANGED OutsideGate

\* Line 134: a call enters; with the gate disabled it returns true at once.
GateEnter(c, u) ==
    /\ gate[c].pc = "idle"
    /\ gateCalls < MaxGateCalls
    /\ gateCalls' = gateCalls + 1
    /\ IF minInterval <= 0
       THEN /\ gate' = [gate EXCEPT ![c] = [GateIdle EXCEPT !.pc = "returned", !.user = u,
                                                           !.result = TRUE, !.now = seconds]]
            /\ grants' = [grants EXCEPT ![u] = Append(@, seconds)]
       ELSE /\ gate' = [gate EXCEPT ![c] = [GateIdle EXCEPT !.pc = "get", !.user = u]]
            /\ UNCHANGED grants
    /\ UNCHANGED <<kv, seconds, ticks, minInterval>>

GateCall(c, u) ==
    /\ GateEnter(c, u)
    /\ UNCHANGED OutsideGate

\* Lines 139-142, run once `last` is known: take `now`, deny or go on to put.
\* `seen` keeps the unexpired value the store held at that moment.
DecideOffByOne(g, last, failed, held) ==
    LET now == seconds
        g1 == [g EXCEPT !.last = last, !.now = now, !.readFailed = failed, !.seen = held]
    IN  IF now - last <= minInterval
        THEN [g1 EXCEPT !.pc = "returned", !.result = FALSE]
        ELSE [g1 EXCEPT !.pc = "put"]

Decide(g, last, failed, held) ==
    LET now == seconds
        g1 == [g EXCEPT !.last = last, !.now = now, !.readFailed = failed, !.seen = held]
    IN  IF now - last < minInterval
        THEN [g1 EXCEPT !.pc = "returned", !.result = FALSE]
        ELSE [g1 EXCEPT !.pc = "put"]

\* Line 138: DATABASE.get resolves and its value is parsed.
GateGetRefreshes(c) ==
    /\ gate[c].pc = "get"
    /\ LET value == KvGet(kv[gate[c].user], seconds)
       IN  gate' = [gate EXCEPT ![c] = Decide(gate[c], ParseInt(OrZero(value)), FALSE, value)]
    /\ kv' = [kv EXCEPT ![gate[c].user] =
                [value |-> ToDec(seconds), expires |-> seconds + minInterval]]
    /\ UNCHANGED <<seconds, ticks, minInterval, gateCalls, grants>>
    /\ UNCHANGED OutsideGate

GateGet(c) ==
    /\ gate[c].pc = "get"
    /\ LET value == KvGet(kv[gate[c].user], seconds)
       IN  gate' = [gate EXCEPT ![c] = Decide(gate[c], ParseInt(OrZero(value)), FALSE, value)]
    /\ UNCHANGED <<kv, seconds, ticks, minInterval, gateCalls, grants>>
    /\ UNCHANGED OutsideGate

\* Line 138: DATABASE.get rejects; .catch(() => 0).
GateGetRejects(c) ==
    /\ gate[c].pc = "get"
    /\ gate' = [gate EXCEPT ![c] =
                  Decide(gate[c], 0, TRUE, KvGet(kv[gate[c].user], seconds))]
    /\ UNCHANGED <<kv, seconds, ticks, minInterval, gateCalls, grants>>
    /\ UNCHANGED OutsideGate

\* Lines 143-144: DATABASE.put lands with expirationTtl, the call returns true.
GatePut(c) ==
    /\ gate[c].pc = "put"
    /\ kv' = [kv EXCEPT ![gate[c].user] =
                [value |-> ToDec(gate[c].now), expires |-> seconds + minInterval]]
    /\ gate' = [gate EXCEPT ![c].pc = "returned", ![c].result = TRUE]
    /\ grants' = [grants EXCEPT ![gate[c].user] = Append(@, gate[c].now)]
    /\ UNCHANGED <<seconds, ticks, minInterval, gateCalls>>
    /\ UNCHANGED OutsideGate

\* Line 143: DATABASE.put rejects and the call throws.
GatePutRejects(c) ==
    /\ gate[c].pc = "put"
    /\ gate' = [gate EXCEPT ![c].pc = "threw"]
    /\ UNCHANGED <<kv, seconds, ticks, minInterval, gateCalls, grants>>
    /\ UNCHANGED OutsideGate

\* The caller has taken the outcome.
GateSettled(c) ==
    /\ gate[c].pc \in {"returned", "threw"}
    /\ gate' = [gate EXCEPT ![c] = GateIdle]
    /\ UNCHANGED <<kv, seconds, ticks, minInterval, gateCalls, grants>>
    /\ UNCHANGED OutsideGate

\* A call that enters while no other call is in flight.
GateCallAlone(c, u) ==
    /\ \A d \in GateCalls : gate[d].pc = "idle"
    /\ GateCall(c, u)

(***************************************************************************)
(* queueMemoryExtraction: the gate, the message text, the submission       *)
(***************************************************************************)
\* messageToText(params): empty for a message without text.
MessageTexts == {<<>>, <<104, 105>>}

QmIdle ==
    [pc |-> "idle", user |-> None, text |-> <<>>, before |-> NoEntry, submitted |-> FALSE]

InitQueueWith(enabled) ==
    /\ qm = [c \in GateCalls |-> QmIdle]
    /\ memoryEnabled \in enabled

\* Lines 189-193: the call returns at once when memory is disabled, and
\* otherwise enters shouldExtractMemory for the sender.  `before` keeps the
\* sender's entry as the call met it.
QueueMemoryExtraction(c, u, text) ==
    /\ \A d \in GateCalls : qm[d].pc = "idle" /\ gate[d].pc = "idle"
    /\ gateCalls < MaxGateCalls
    /\ LET q == [QmIdle EXCEPT !.user = u, !.text = text, !.before = kv[u]]
       IN  IF memoryEnabled
           THEN /\ GateEnter(c, u)
                /\ qm' = [qm EXCEPT ![c] = [q EXCEPT !.pc = "gate"]]
           ELSE /\ qm' = [qm EXCEPT ![c] = [q EXCEPT !.pc = "returned"]]
                /\ UNCHANGED gateVars
    /\ UNCHANGED memoryEnabled
    /\ UNCHANGED OutsideWorker

\* Line 193: shouldExtractMemory has settled.  A rejected put throws out of
\* the call, false returns from it, true goes on to loadHistory.
QueueGateSettles(c) ==
    /\ qm[c].pc = "gate"
    /\ gate[c].pc \in {"returned", "threw"}
    /\ qm' = [qm EXCEPT ![c].pc =
                 IF gate[c].pc = "threw" THEN "threw"
                 ELSE IF gate[c].result THEN "history" ELSE "returned"]
    /\ gate' = [gate EXCEPT ![c] = GateIdle]
    /\ UNCHANGED <<kv, seconds, ticks, minInterval, gateCalls, grants, memoryEnabled>>
    /\ UNCHANGED OutsideWorker

\* Lines 196-200: loadHistory resolves (it catches its own errors); a
\* message without text ends the call.
QueueLoadHistory(c) ==
    /\ qm[c].pc = "history"
    /\ qm' = [qm EXCEPT ![c].pc = IF qm[c].text = <<>> THEN "returned" ELSE "send"]
    /\ UNCHANGED <<gateVars, memoryEnabled>>
    /\ UNCHANGED OutsideWorker

\* Line 208, sendAutoExtraction: the POST to /memory/auto-extract settles;
\* a status that is not ok throws.
QueueSend(c, ok) ==
    /\ qm[c].pc = "send"
    /\ qm' = IF memoryEnabled /\ ~ok
             THEN [qm EXCEPT ![c].pc = "threw"]
             ELSE [qm EXCEPT ![c].pc = "returned", ![c].submitted = memoryEnabled]
    /\ UNCHANGED <<gateVars, memoryEnabled>>
    /\ UNCHANGED OutsideWorker

\* The caller has taken the outcome.
QueueSettled(c) ==
    /\ qm[c].pc \in {"returned", "threw"}
    /\ qm' = [qm EXCEPT ![c] = QmIdle]
    /\ UNCHANGED <<gateVars, memoryEnabled>>
    /\ UNCHANGED OutsideWorker

(***************************************************************************)
(* memoryContext: fan-out vector search, merge and rank                    *)
(***************************************************************************)
\* limit: 3 of the vectorSearch call
SearchLimit == 3

\* dimensions of the by_embedding index: 1536 in schema.ts, vectors of two
\* components here.  A query vector of another length is refused by the index.
embeddingDimensions == 2

Min(a, b) == IF a < b THEN a ELSE b

Max(a, b) == IF a > b THEN a ELSE b

\* The similarity _score of a stored embedding against the query vector
\* (a dot product over the components both have).
RECURSIVE Dot(_, _)
Dot(a, b) ==
    IF a = <<>> \/ b = <<>> THEN 0
    ELSE Head(a) * Head(b) + Dot(Tail(a), Tail(b))

\* vectorSearch(table, "by_embedding", {vector, limit, filter: owner}): every
\* answer the index may give.  An answer lists `limit` rows of the owner (all
\* of them when there are fewer), best score first; rows of equal score come
\* in any order.
VectorSearchUnlimited(rows, vector, user, limit) ==
    LET mine == {i \in 1..Len(rows) : rows[i].telegramUserId = user}
        k == Cardinality(mine)
        score(i) == Dot(rows[i].embedding, vector)
    IN  {[n \in 1..k |-> [id |-> m[n], score |-> score(m[n])]] :
            m \in {f \in [1..k -> mine] :
                     /\ \A a, b \in 1..k : a # b => f[a] # f[b]
                     /\ \A a, b \in 1..k : a < b => score(f[a]) >= score(f[b])}}

VectorSearch(rows, vector, user, limit) ==
    LET mine == {i \in 1..Len(rows) : rows[i].telegramUserId = user}
        k == Min(limit, Cardinality(mine))
        score(i) == Dot(rows[i].embedding, vector)
    IN  {[n \in 1..k |-> [id |-> m[n], score |-> score(m[n])]] :
            m \in {f \in [1..k -> mine] :
                     /\ \A a, b \in 1..k : a # b => f[a] # f[b]
                     /\ \A a, b \in 1..k : a < b => score(f[a]) >= score(f[b])
                     /\ \A i \in mine :
                           (\A a \in 1..k : f[a] # i) =>
                               \A a \in 1..k : score(f[a]) >= score(i)}}

\* Lines 217-224: ctx.db.get of every match, then {layer, record, score}.
LayerResult(layer, rows, matches) ==
    [n \in 1..Len(matches) |->
        [layer |-> layer, record |-> rows[matches[n].id], score |-> matches[n].score]]

\* Line 227: results.flat().map(...), over the layers in registry order.
RECURSIVE FlatByCompletion(_, _)
FlatByCompletion(results, n) ==
    IF n = 0 THEN <<>>
    ELSE FlatByCompletion(results, n - 1)
            \o (IF n <= Len(completion) THEN results[completion[n]] ELSE <<>>)

RECURSIVE Flat(_, _)
Flat(results, n) ==
    IF n = 0 THEN <<>> ELSE Flat(results, n - 1) \o results[layers[n]]

ToItem(r) ==
    [layer |-> r.layer, text |-> r.record.text, abstract |-> r.record.abstract,
     tags |-> r.record.tags, score |-> r.score]

\* Line 234: items.sort((a, b) => b.score - a.score), a stable sort.
RECURSIVE InsertByScore(_, _)
InsertByScore(sorted, item) ==
    IF sorted = <<>> THEN <<item>>
    ELSE IF Head(sorted).score >= item.score
         THEN <<Head(sorted)>> \o InsertByScore(Tail(sorted), item)
         ELSE <<item>> \o sorted

RECURSIVE SortByScoreFrom(_, _)
SortByScoreFrom(sorted, rest) ==
    IF rest = <<>> THEN sorted
    ELSE SortByScoreFrom(InsertByScore(sorted, Head(rest)), Tail(rest))

SortByScoreMissing(items) == items

SortByScore(items) == SortByScoreFrom(<<>>, items)

MergeItems(results) ==
    SortByScore([n \in 1..Len(Flat(results, Len(layers))) |->
                    ToItem(Flat(results, Len(layers))[n])])

\* Rows a populated table holds: n rows of owner u1, whose embeddings
\* differ from row to row and from layer to layer, and one row of owner u2.
LayerIndex(layer) == CHOOSE i \in 1..Len(layers) : layers[i] = layer

StoredRow(user, layer, i) ==
    [telegramUserId |-> user, sourceChatId |-> "c1", sourceMessageId |-> "m1",
     text |-> <<96 + i>>, abstract |-> <<64 + i>>, tags |-> <<>>,
     embedding |-> <<(i + LayerIndex(layer)) % 4, Max(i, 2)>>,
     hash |-> ToDec(i), createdAt |-> 0, updatedAt |-> 0]

Populated(layer, n) ==
    [i \in 1..n |-> StoredRow("u1", layer, i)] \o <<StoredRow("u2", layer, 1)>>

StoredChoices(layer) == {<<>>, Populated(layer, MaxStored)}

PopulatedTables ==
    {tabs \in [Tables -> UNION {StoredChoices(l) : l \in Layers}] :
        \A l \in Layers : tabs[layerToTable(l)] \in StoredChoices(l)}

ContextPayloads == [telegramUserId : Users]

RqIdle ==
    [pc |-> "idle", user |-> None, vector |-> <<>>,
     search |-> [l \in Layers |-> "idle"],
     results |-> [l \in Layers |-> <<>>],
     items |-> <<>>, error |-> None]

InitRetrieveWith(idle) == rq = idle

\* memoryContext is invoked: fetchEmbedding(payload.query) reads the credential.
RetrieveStart(payload) ==
    /\ rq.pc = "idle"
    /\ rq' = IF env.OPENROUTER_API_KEY
             THEN [RqIdle EXCEPT !.pc = "embed", !.user = payload.telegramUserId]
             ELSE [RqIdle EXCEPT !.pc = "failed", !.user = payload.telegramUserId,
                                 !.error = "config"]
    /\ UNCHANGED OutsideRetrieval

\* The embeddings request settles; on success the six searches are issued.
RetrieveEmbed(outcome) ==
    /\ rq.pc = "embed"
    /\ rq' = IF ~outcome.ok
             THEN [rq EXCEPT !.pc = "failed", !.error = "embedding"]
             ELSE [rq EXCEPT !.pc = "search", !.vector = outcome.embedding,
                             !.search = [l \in Layers |-> "pending"]]
    /\ UNCHANGED OutsideRetrieval

\* One layer's search and its ctx.db.get calls resolve.
LayerSearchResolves(layer) ==
    /\ rq.pc = "search"
    /\ rq.search[layer] = "pending"
    /\ Len(rq.vector) = embeddingDimensions
    /\ \E matches \in VectorSearch(RowsOf(tables, layer), rq.vector, rq.user, SearchLimit) :
          rq' = [rq EXCEPT !.search[layer] = "resolved",
                           !.results[layer] =
                               LayerResult(layer, RowsOf(tables, layer), matches)]
    /\ UNCHANGED OutsideRetrieval

InitOrderWith(order) == completion = order

\* One layer's search and its ctx.db.get calls resolve, at a moment of
\* their own: the callback's value goes to the layer's slot of the array
\* Promise.all resolves with.
LayerSearchCompletes(layer) ==
    /\ rq.pc = "search"
    /\ rq.search[layer] = "pending"
    /\ Len(rq.vector) = embeddingDimensions
    /\ \E matches \in VectorSearch(RowsOf(tables, layer), rq.vector, rq.user, SearchLimit) :
          rq' = [rq EXCEPT !.search[layer] = "resolved",
                           !.results[layer] =
                               LayerResult(layer, RowsOf(tables, layer), matches)]
    /\ completion' = Append(completion, layer)
    /\ UNCHANGED OutsideQuery

\* One layer's search rejects: Promise.all rejects and the query throws.
LayerSearchRejectsIsolated(layer) ==
    /\ rq.pc = "search"
    /\ rq.search[layer] = "pending"
    /\ rq' = [rq EXCEPT !.search[layer] = "rejected"]
    /\ UNCHANGED OutsideRetrieval

LayerSearchRejects(layer) ==
    /\ rq.pc = "search"
    /\ rq.search[layer] = "pending"
    /\ rq' = [rq EXCEPT !.pc = "failed", !.error = "search",
                        !.search[layer] = "rejected"]
    /\ UNCHANGED OutsideRetrieval

\* Promise.all resolves once no search is pending; lines 227-235.
RetrieveMerge ==
    /\ rq.pc = "search"
    /\ \A l \in Layers : rq.search[l] # "pending"
    /\ rq' = [rq EXCEPT !.pc = "done", !.items = MergeItems(rq.results)]
    /\ UNCHANGED OutsideRetrieval

\* The caller has taken the outcome.
RetrieveReturn ==
    /\ rq.pc \in {"done", "failed"}
    /\ rq' = RqIdle
    /\ UNCHANGED OutsideRetrieval

(***************************************************************************)
(* Specifications                                                          *)
(***************************************************************************)
\* The Convex deployment with empty tables; the credential may or may not
\* be configured.  The worker's rate gate is not involved.
Init ==
    /\ InitStoreWith(EmptyTables, BOOLEAN)
    /\ InitGateWith({60})
    /\ InitRetrieveWith(RqIdle)
    /\ InitHashWith({"identities"}, {<<>>})
    /\ InitTxnWith(UpIdle)
    /\ InitSchedulerWith(<<>>)
    /\ InitOrderWith(<<>>)
    /\ InitQueueWith({TRUE})

\* Clients calling the mutation directly.
NextUpsert ==
    \/ Tick
    \/ \E payload \in UpsertPayloads : UpsertMemory(payload)

Spec == Init /\ [][NextUpsert]_vars

\* The extraction pipeline, one invocation after another.
NextExtract ==
    \/ Tick
    \/ \E payload \in ExtractionPayloads : ExtractStart(payload)
    \/ \E response \in Responses : ExtractFetch(response)
    \/ ExtractParse
    \/ ExtractLoop
    \/ \E outcome \in EmbedOutcomes : ExtractEmbed(outcome)
    \/ ExtractUpsert
    \/ ExtractUpsertFails
    \/ ExtractReturn

SpecExtract == Init /\ [][NextExtract]_vars

\* The worker with no last-trigger record, under each configured interval.
\* The Convex deployment is not involved.
InitWorker ==
    /\ InitStoreWith(EmptyTables, {TRUE})
    /\ InitGateWith(Intervals)
    /\ InitRetrieveWith(RqIdle)
    /\ InitHashWith({"identities"}, {<<>>})
    /\ InitTxnWith(UpIdle)
    /\ InitSchedulerWith(<<>>)
    /\ InitOrderWith(<<>>)
    /\ InitQueueWith({TRUE})

\* Calls of shouldExtractMemory that may overlap.
NextGate ==
    \/ \E d \in TickSteps : TickSeconds(d)
    \/ \E c \in GateCalls, u \in Users : GateCall(c, u)
    \/ \E c \in GateCalls : GateGet(c)
    \/ \E c \in GateCalls : GateGetRejects(c)
    \/ \E c \in GateCalls : GatePut(c)
    \/ \E c \in GateCalls : GatePutRejects(c)
    \/ \E c \in GateCalls : GateSettled(c)

SpecGate == InitWorker /\ [][NextGate]_vars

\* Calls of shouldExtractMemory one after the other.
NextGateSequential ==
    \/ \E d \in TickSteps : TickSeconds(d)
    \/ \E c \in GateCalls, u \in Users : GateCallAlone(c, u)
    \/ \E c \in GateCalls : GateGet(c)
    \/ \E c \in GateCalls : GateGetRejects(c)
    \/ \E c \in GateCalls : GatePut(c)
    \/ \E c \in GateCalls : GatePutRejects(c)
    \/ \E c \in GateCalls : GateSettled(c)

SpecGateSequential == InitWorker /\ [][NextGateSequential]_vars

\* Queries against populated tables.
NextRetrieve ==
    \/ \E payload \in ContextPayloads : RetrieveStart(payload)
    \/ \E outcome \in EmbedOutcomes : RetrieveEmbed(outcome)
    \/ \E l \in Layers : LayerSearchResolves(l)
    \/ \E l \in Layers : LayerSearchRejects(l)
    \/ RetrieveMerge
    \/ RetrieveReturn

InitPopulated ==
    /\ \E tabs \in PopulatedTables : InitStoreWith(tabs, BOOLEAN)
    /\ InitGateWith({60})
    /\ InitRetrieveWith(RqIdle)
    /\ InitHashWith({"identities"}, {<<>>})
    /\ InitTxnWith(UpIdle)
    /\ InitSchedulerWith(<<>>)
    /\ InitOrderWith(<<>>)
    /\ InitQueueWith({TRUE})

SpecRetrieve == InitPopulated /\ [][NextRetrieve]_vars

\* Messages reach queueMemoryExtraction one after the other, with memory
\* enabled or not and under each configured interval.
InitMessages ==
    /\ InitStoreWith(EmptyTables, {TRUE})
    /\ InitGateWith(Intervals)
    /\ InitRetrieveWith(RqIdle)
    /\ InitHashWith({"identities"}, {<<>>})
    /\ InitTxnWith(UpIdle)
    /\ InitSchedulerWith(<<>>)
    /\ InitOrderWith(<<>>)
    /\ InitQueueWith(BOOLEAN)

NextQueue ==
    \/ \E d \in TickSteps : TickSeconds(d)
    \/ \E c \in GateCalls, u \in Users, text \in MessageTexts :
          QueueMemoryExtraction(c, u, text)
    \/ \E c \in GateCalls : GateGet(c)
    \/ \E c \in GateCalls : GateGetRejects(c)
    \/ \E c \in GateCalls : GatePut(c)
    \/ \E c \in GateCalls : GatePutRejects(c)
    \/ \E c \in GateCalls : QueueGateSettles(c)
    \/ \E c \in GateCalls : QueueLoadHistory(c)
    \/ \E c \in GateCalls, ok \in BOOLEAN : QueueSend(c, ok)
    \/ \E c \in GateCalls : QueueSettled(c)

SpecQueue == InitMessages /\ [][NextQueue]_vars

\* One query against tables populated in every layer, its six searches
\* resolving in any order.
InitQuery ==
    /\ InitStoreWith([t \in Tables |->
                        Populated(CHOOSE l \in Layers : layerToTable(l) = t, MaxStored)],
                     {TRUE})
    /\ InitGateWith({60})
    /\ InitRetrieveWith(RqIdle)
    /\ InitHashWith({"identities"}, {<<>>})
    /\ InitTxnWith(UpIdle)
    /\ InitSchedulerWith(<<>>)
    /\ InitOrderWith(<<>>)
    /\ InitQueueWith({TRUE})

NextQuery ==
    \/ \E payload \in ContextPayloads : RetrieveStart(payload)
    \/ \E outcome \in EmbedOutcomes : RetrieveEmbed(outcome)
    \/ \E l \in Layers : LayerSearchCompletes(l)
    \/ RetrieveMerge

SpecQuery == InitQuery /\ [][NextQuery]_vars

\* Extraction requests are submitted and the scheduler runs them, one
\* invocation of extractMemories at a time.
NextSchedule ==
    \/ \E payload \in ExtractionPayloads : AutoExtractFromMessage(payload)
    \/ \E n \in 1..MaxExtractions : ScheduledExtractStart(n)
    \/ \E response \in Responses : ExtractFetch(response)
    \/ ExtractParse
    \/ ExtractLoop
    \/ \E outcome \in EmbedOutcomes : ExtractEmbed(outcome)
    \/ ExtractUpsert
    \/ ExtractUpsertFails
    \/ ExtractReturn

SpecSchedule == Init /\ [][NextSchedule]_vars

\* Clients whose calls of the mutation overlap.
NextConcurrent ==
    \/ Tick
    \/ \E t \in Txns, payload \in ConcurrentPayloads : UpsertCall(t, payload)
    \/ \E t \in Txns : UpsertRun(t)
    \/ \E t \in Txns : UpsertCommit(t)
    \/ \E t \in Txns : UpsertSettled(t)

InitConcurrent ==
    /\ InitStoreWith(EmptyTables, {TRUE})
    /\ InitGateWith({60})
    /\ InitRetrieveWith(RqIdle)
    /\ InitHashWith({"identities"}, {<<>>})
    /\ InitTxnWith(UpIdle)
    /\ InitSchedulerWith(<<>>)
    /\ InitOrderWith(<<>>)
    /\ InitQueueWith({TRUE})

SpecConcurrent == InitConcurrent /\ [][NextConcurrent]_vars

\* hashMemory applied to pairs of texts under every layer.
InitHash ==
    /\ InitStoreWith(EmptyTables, {TRUE})
    /\ InitGateWith({60})
    /\ InitRetrieveWith(RqIdle)
    /\ InitHashWith(Layers, HashTexts)
    /\ InitTxnWith(UpIdle)
    /\ InitSchedulerWith(<<>>)
    /\ InitOrderWith(<<>>)
    /\ InitQueueWith({TRUE})

NextHash == HashMemoryReturns

SpecHash == InitHash /\ [][NextHash]_vars

(***************************************************************************)
(* Properties of hashMemory                                                *)
(***************************************************************************)
\* normalize(text) of the specification: the text between its first and its
\* last character that is not white space, Latin capitals made small.
Normalize(text) ==
    LET solid == {i \in 1..Len(text) : text[i] \notin {9, 10, 11, 12, 13, 32, 160}}
        first == CHOOSE i \in solid : \A j \in solid : i <= j
        last == CHOOSE i \in solid : \A j \in solid : i >= j
    IN  IF solid = {} THEN <<>>
        ELSE [n \in 1..(last - first + 1) |->
                LET c == text[first + n - 1]
                IN  IF c \in 65..90 THEN c + 32 ELSE c]

\* Arithmetic modulo 2^32 on four bytes, least significant first:
\* b * m + c, the carry out of the fourth byte dropped.
RECURSIVE MulAdd32(_, _, _)
MulAdd32(b, m, c) ==
    IF b = <<>> THEN <<>>
    ELSE LET t == Head(b) * m + c
         IN  <<t % 256>> \o MulAdd32(Tail(b), m, t \div 256)

\* h = (h * 31 + char) mod 2^32 over the characters of input, from h = 0.
RECURSIVE Fold32(_, _)
Fold32(h, input) ==
    IF input = <<>> THEN h ELSE Fold32(MulAdd32(h, 31, Head(input)), Tail(input))

\* The number a string of decimal digits spells, modulo 2^32.
RECURSIVE Decimal32(_, _)
Decimal32(h, digits) ==
    IF digits = <<>> THEN h ELSE Decimal32(MulAdd32(h, 10, Head(digits) - 48), Tail(digits))

\* A decimal numeral of a value below 2^32 = 4294967296: digits only, no
\* leading zero, at most ten digits, and ten digits only below the modulus.
RECURSIVE NotAbove(_, _)
NotAbove(digits, limit) ==
    \/ digits = <<>>
    \/ Head(digits) < Head(limit)
    \/ Head(digits) = Head(limit) /\ NotAbove(Tail(digits), Tail(limit))

IsNumeral32(s) ==
    /\ Len(s) \in 1..10
    /\ \A i \in 1..Len(s) : s[i] \in 48..57
    /\ Len(s) > 1 => s[1] # 48
    /\ Len(s) = 10 => NotAbove(s, <<52, 50, 57, 52, 57, 54, 55, 50, 57, 53>>)

LayerColon(layer) == LayerChars(layer) \o <<58>>

FoldOf(layer, text) == Fold32(<<0, 0, 0, 0>>, LayerColon(layer) \o Normalize(text))

\* C12: for every layer and every two texts whose trimmed, lower-cased forms
\* are equal hashMemory returns the same string, and the string it returns
\* is the decimal numeral of the 32-bit unsigned fold h = (h*31 + char)
\* mod 2^32 over layer + ":" + normalize(text).
C12_HashDeterministic ==
    hm.pc = "returned" =>
        /\ Normalize(hm.t1) = Normalize(hm.t2) => hm.h1 = hm.h2
        /\ IsNumeral32(hm.h1)
        /\ Decimal32(<<0, 0, 0, 0>>, hm.h1) = FoldOf(hm.layer, hm.t1)
        /\ IsNumeral32(hm.h2)
        /\ Decimal32(<<0, 0, 0, 0>>, hm.h2) = FoldOf(hm.layer, hm.t2)

\* "Loves Coffee" and "  loves coffee  " under identities both give
\* "776993385", while "loves tea" gives "3164861075".
C12_Witness ==
    /\ hm.pc = "returned"
    /\ hm.layer = "identities"
    /\ hm.t1 = LovesCoffee
    /\ hm.t2 = LovesCoffeePadded
    /\ hm.h1 = hm.h2
    /\ hm.h1 = <<55, 55, 54, 57, 57, 51, 51, 56, 53>>
    /\ hashMemory("identities", LovesTea) = <<51, 49, 54, 52, 56, 54, 49, 48, 55, 53>>

(***************************************************************************)
(* Properties of upsertMemory                                              *)
(***************************************************************************)
\* C1: in every reachable state each layer table holds at most one row per
\* (telegramUserId, hash) pair: an upsert that finds the pair patches the
\* row and never inserts a second one.
C1_OneRowPerUserHash ==
    \A t \in Tables : \A i, j \in 1..Len(tables[t]) :
        (/\ tables[t][i].telegramUserId = tables[t][j].telegramUserId
         /\ tables[t][i].hash = tables[t][j].hash) => i = j

\* An upsert has met an existing pair, in a table where another owner
\* holds the same hash.
C1_Witness ==
    /\ lastUpsert # <<>>
    /\ lastUpsert[1].returned = "updated"
    /\ \E t \in Tables : \E i, j \in 1..Len(tables[t]) :
          i # j /\ tables[t][i].hash = tables[t][j].hash

\* C2, as stated: of two consecutive calls with the same payload the first
\* reports inserted and the second updated, one row holds the pair, and the
\* row's text, abstract, tags and embedding are the same after both.
C2_AsStated ==
    repeat # <<>> =>
        /\ repeat[1].rowsAfterSecond = 1
        /\ repeat[1].first = "inserted"
        /\ repeat[1].second = "updated"
        /\ repeat[1].contentAfterSecond = repeat[1].contentAfterFirst

\* C2, amended: the first of the two calls reports inserted exactly when the
\* table held no row for the pair before it, and updated otherwise; the
\* rest as stated.
C2_IdempotentUpsert ==
    repeat # <<>> =>
        /\ repeat[1].rowsAfterSecond = 1
        /\ repeat[1].first = (IF repeat[1].existedBeforeFirst THEN "updated" ELSE "inserted")
        /\ repeat[1].second = "updated"
        /\ repeat[1].contentAfterSecond = repeat[1].contentAfterFirst
        /\ repeat[1].contentAfterSecond =
              <<[text |-> repeat[1].payload.text, abstract |-> repeat[1].payload.abstract,
                 tags |-> repeat[1].payload.tags, embedding |-> repeat[1].payload.embedding]>>

\* Two identical calls in a row on a fresh pair: inserted, then updated.
C2_Witness ==
    /\ repeat # <<>>
    /\ repeat[1].first = "inserted"
    /\ repeat[1].second = "updated"
    /\ ~repeat[1].existedBeforeFirst

\* The rows of owner `user` with text `text` in the table of a layer.
RowsWithText(tabs, layer, user, text) ==
    {i \in 1..Len(RowsOf(tabs, layer)) :
        /\ RowsOf(tabs, layer)[i].telegramUserId = user
        /\ RowsOf(tabs, layer)[i].text = text}

\* C11: an upsert to one layer leaves the table of every other layer as it
\* was, and the upserted layer's own table then holds one row for the
\* owner and hash; so upserting one owner's text under two layers gives two
\* rows, one in each layer's table, the first still there after the second.
C11_LayerIsolation ==
    [][tables' # tables =>
          /\ lastUpsert' # <<>>
          /\ LET p == lastUpsert'[1].payload
             IN  /\ \A l \in Layers \ {p.layer} : RowsOf(tables', l) = RowsOf(tables, l)
                 /\ Cardinality(RowsFor(RowsOf(tables', p.layer),
                                        p.telegramUserId, p.hash)) = 1
                 /\ RowsWithText(tables', p.layer, p.telegramUserId, p.text) # {}
                 /\ \A l \in Layers \ {p.layer} :
                       RowsWithText(tables, l, p.telegramUserId, p.text) # {} =>
                           /\ RowsWithText(tables', l, p.telegramUserId, p.text) # {}
                           /\ layerToTable(l) # layerToTable(p.layer)]_vars

\* The same owner, text and hash have been upserted under identities and
\* then under preferences: the second call inserted, and each table holds
\* its own row.
C11_Witness ==
    /\ lastUpsert # <<>>
    /\ lastUpsert[1].payload.layer = "preferences"
    /\ lastUpsert[1].returned = "inserted"
    /\ LET p == lastUpsert[1].payload
       IN  /\ RowsWithText(tables, "identities", p.telegramUserId, p.text) # {}
           /\ RowsWithText(tables, "preferences", p.telegramUserId, p.text) # {}
           /\ \E i \in RowsFor(RowsOf(tables, "identities"), p.telegramUserId, p.hash) :
                 RowsOf(tables, "identities")[i].text = p.text
           /\ Len(RowsOf(tables, "identities")) + Len(RowsOf(tables, "preferences")) >= 2

\* The upsert of payload p has patched row `at` of its layer's table: the
\* fields the patch names are p's, updatedAt is the time of the call, and
\* every other field is as it was.
PatchedOnly(before, after, p, now) ==
    /\ after.text = p.text
    /\ after.abstract = p.abstract
    /\ after.tags = p.tags
    /\ after.embedding = p.embedding
    /\ after.updatedAt = now
    /\ after.telegramUserId = before.telegramUserId
    /\ after.hash = before.hash
    /\ after.createdAt = before.createdAt
    /\ after.sourceChatId = before.sourceChatId
    /\ after.sourceMessageId = before.sourceMessageId

UpdatedNotBeforeCreated ==
    \A t \in Tables : \A i \in 1..Len(tables[t]) :
        tables[t][i].updatedAt >= tables[t][i].createdAt

\* C19: an upsert that finds the pair changes only the text, abstract, tags,
\* embedding and updatedAt of the row found; the row's owner, hash,
\* createdAt, sourceChatId and sourceMessageId stay as inserted, no other
\* row of any table changes, and every row has updatedAt >= createdAt.
C19_PatchFrame ==
    /\ []UpdatedNotBeforeCreated
    /\ [][(tables' # tables /\ lastUpsert' # <<>> /\ lastUpsert'[1].returned = "updated") =>
             LET p == lastUpsert'[1].payload
                 t == layerToTable(p.layer)
                 at == FindByUserHash(tables[t], p.telegramUserId, p.hash)
             IN  /\ at # 0
                 /\ Len(tables'[t]) = Len(tables[t])
                 /\ PatchedOnly(tables[t][at], tables'[t][at], p, clock)
                 /\ \A i \in 1..Len(tables[t]) : i # at => tables'[t][i] = tables[t][i]
                 /\ \A o \in Tables \ {t} : tables'[o] = tables[o]]_vars

\* A row inserted from message m1 at time 0 has been patched at time 1 by
\* a call that came from message m2 of another chat, next to a row of
\* another owner in the same table.
C19_Witness ==
    /\ lastUpsert # <<>>
    /\ lastUpsert[1].returned = "updated"
    /\ lastUpsert[1].payload.sourceMessageId = "m2"
    /\ LET p == lastUpsert[1].payload
           rows == RowsOf(tables, p.layer)
       IN  /\ \E i \in RowsFor(rows, p.telegramUserId, p.hash) :
                 /\ rows[i].sourceMessageId = "m1"
                 /\ rows[i].sourceChatId = "c1"
                 /\ rows[i].text = p.text
                 /\ rows[i].createdAt = 0
                 /\ rows[i].updatedAt = 1
           /\ \E j \in 1..Len(rows) : rows[j].telegramUserId # p.telegramUserId

ContentOf(payload) ==
    [text |-> payload.text, abstract |-> payload.abstract,
     tags |-> payload.tags, embedding |-> payload.embedding]

SameKey(p, q) ==
    /\ p.layer = q.layer
    /\ p.telegramUserId = q.telegramUserId
    /\ p.hash = q.hash

\* C14: when upserts of one owner, layer and hash overlap, under every
\* interleaving each call that returns reports inserted or updated, and
\* once two such calls have returned the table holds one row for the pair,
\* whose text, abstract, tags and embedding are those of the write applied
\* last.
C14_LastWriteWins ==
    /\ \A t \in Txns : up[t].pc = "returned" => up[t].returned \in {"inserted", "updated"}
    /\ \A t1, t2 \in Txns :
          (/\ t1 # t2
           /\ up[t1].pc = "returned"
           /\ up[t2].pc = "returned"
           /\ SameKey(up[t1].payload, up[t2].payload)) =>
              LET p == up[t1].payload
                  last == lastUpsert[1].payload
              IN  /\ Cardinality(RowsFor(RowsOf(tables, p.layer), p.telegramUserId, p.hash)) = 1
                  /\ SameKey(last, p) => StoredContent(tables, p) = <<ContentOf(last)>>
                  /\ last \in {up[t1].payload, up[t2].payload}

\* Two calls with different texts for one new pair both ran before either
\* committed: the first to commit inserted, the other was run again,
\* reported updated, and its text is the one stored.
C14_Witness ==
    \E t1, t2 \in Txns :
        /\ up[t1].pc = "returned" /\ up[t1].returned = "inserted" /\ up[t1].runs = 1
        /\ up[t2].pc = "returned" /\ up[t2].returned = "updated" /\ up[t2].runs = 2
        /\ SameKey(up[t1].payload, up[t2].payload)
        /\ up[t1].payload.text # up[t2].payload.text
        /\ StoredContent(tables, up[t1].payload) = <<ContentOf(up[t2].payload)>>

(***************************************************************************)
(* Properties of extractMemories                                           *)
(***************************************************************************)
Registered(items) == {i \in 1..Len(items) : LayersIncludes(items[i].layer)}

BeyondFetch == ex.pc \notin {"idle", "fetch"}
BeyondParse == ex.pc \notin {"idle", "fetch", "parse"}

NothingWritten ==
    /\ ex.writes = 0
    /\ ex.embeds = 0
    /\ tables = ex.before[1]

\* C5: an item whose layer is not registered is skipped without an error;
\* every item with a registered layer is embedded and upserted; the count
\* returned is the number of registered-layer items.
C5_SkipUnregisteredLayer ==
    /\ ex.pc = "done" =>
          /\ ex.error = None
          /\ ex.inserted = Cardinality(Registered(ex.items))
          /\ ex.writes = ex.inserted
          /\ ex.embeds = ex.inserted
          /\ \A i \in Registered(ex.items) :
                RowsFor(RowsOf(tables, ex.items[i].layer), ex.payload.telegramUserId,
                        hashMemory(ex.items[i].layer,
                                   OrElse(ex.items[i].text, ex.items[i].abstract))) # {}
    /\ (ex.pc = "failed" /\ ex.idx >= 1) =>
          /\ ex.idx <= Len(ex.items)
          /\ LayersIncludes(ex.items[ex.idx].layer)

\* One valid item and one item of layer "bogus": inserted = 1.
C5_Witness ==
    /\ ex.pc = "done"
    /\ ex.content = "{items:[A,bogus]}"
    /\ ex.inserted = 1
    /\ Len(tables["memoryIdentities"]) = 1

\* C6, as stated: content that does not parse as JSON makes the call fail
\* with the malformed-response error, with no write and no embedding call.
C6_AsStated ==
    (BeyondParse /\ ex.status = "ok" /\ ex.content # Undefined
       /\ JSONParse(ex.content).threw) =>
        /\ ex.pc = "failed"
        /\ ex.error = "parse"
        /\ NothingWritten

\* C6, amended: that holds of non-empty content; empty content, which does
\* not parse either, makes the call return inserted = 0 without an error.
\* In both cases nothing is written and nothing is embedded.
C6_ParseFailure ==
    (BeyondParse /\ ex.status = "ok" /\ ex.content # Undefined
       /\ JSONParse(ex.content).threw) =>
        /\ NothingWritten
        /\ IF ex.content = ""
           THEN ex.pc = "done" /\ ex.error = None /\ ex.inserted = 0
           ELSE ex.pc = "failed" /\ ex.error = "parse"

\* A non-JSON response has failed the call while the tables hold rows of
\* an earlier extraction.
C6_Witness ==
    /\ ex.pc = "failed"
    /\ ex.error = "parse"
    /\ ex.content = "not json"
    /\ tables # EmptyTables

\* C10: a non-success status raises an error with no write; a successful
\* response whose parsed content has an empty or absent items list returns
\* inserted = 0 with no error, no write and no embedding call.
C10_ProviderFailureVersusEmpty ==
    /\ (BeyondFetch /\ ex.status = "not ok") =>
          /\ ex.pc = "failed"
          /\ ex.error = "provider"
          /\ NothingWritten
    /\ (BeyondParse /\ ex.status = "ok" /\ ~Falsy(ex.content)
          /\ ~JSONParse(ex.content).threw
          /\ ItemsOrEmpty(JSONParse(ex.content)) = <<>>) =>
          /\ ex.pc \in {"loop", "done"}
          /\ ex.error = None
          /\ ex.inserted = 0
          /\ NothingWritten

\* The provider has answered with a non-success status while the tables
\* hold rows of an earlier extraction.
C10_Witness ==
    /\ ex.pc = "failed"
    /\ ex.error = "provider"
    /\ ex.status = "not ok"
    /\ tables # EmptyTables

\* The accepted items before position n of the provider's list.
AcceptedBefore(items, n) == {i \in Registered(items) : i < n}

\* The row the upsert of item i of the call in flight is stored under.
ItemStored(i) ==
    RowsFor(RowsOf(tables, ex.items[i].layer), ex.payload.telegramUserId,
            hashMemory(ex.items[i].layer, OrElse(ex.items[i].text, ex.items[i].abstract))) # {}

\* Where the call stands: every accepted item before the present one is
\* embedded and written, the present one is at most embedded, none after it
\* is touched; and a call that failed on an item has stopped at it.
OneAtATime ==
    /\ ex.pc \in {"loop", "done"} =>
          /\ ex.writes = Cardinality(AcceptedBefore(ex.items, ex.idx))
          /\ ex.embeds = ex.writes
    /\ ex.pc \in {"embed", "upsert"} =>
          /\ ex.idx \in Registered(ex.items)
          /\ ex.writes = Cardinality(AcceptedBefore(ex.items, ex.idx))
          /\ ex.embeds = ex.writes + 1
    /\ (ex.pc = "failed" /\ ex.error \in {"embedding", "upsert"}) =>
          /\ ex.idx \in Registered(ex.items)
          /\ ex.writes = Cardinality(AcceptedBefore(ex.items, ex.idx))
          /\ ex.embeds = ex.writes + 1
          /\ ex.inserted = ex.writes
          /\ \A i \in AcceptedBefore(ex.items, ex.idx) : ItemStored(i)

\* C17: accepted items are embedded and upserted one at a time in the order
\* of the provider's list; when the embedding call or the upsert of the k-th
\* accepted item fails the call fails: nothing after that item is embedded
\* or written, and the rows written for the items before it stay.
C17_AbortWithoutRollback ==
    /\ []OneAtATime
    /\ [][/\ tables' # tables =>
                /\ ex.pc = "upsert"
                /\ ex'.pc = "loop"
                /\ ex'.idx = ex.idx + 1
                /\ ex'.writes = ex.writes + 1
                /\ lastUpsert'[1].payload.layer = ex.items[ex.idx].layer
                /\ lastUpsert'[1].payload.text = ex.items[ex.idx].text
          /\ (ex.pc \in {"loop", "embed", "upsert"} /\ ex'.pc # "failed") =>
                /\ ex'.idx >= ex.idx
                /\ ex'.items = ex.items
          /\ ex.pc = "failed" =>
                /\ tables' = tables
                /\ ex' \in {ex, ExIdle}
          /\ (ex.pc \in {"embed", "upsert"} /\ ex'.pc = "failed") =>
                /\ tables' = tables
                /\ ex'.idx = ex.idx
                /\ ex'.writes = ex.writes
                /\ ex'.embeds = ex.embeds]_vars

\* Of the list [bogus, padded, emptytext] the first accepted item is
\* written; the upsert of the second has failed, the call has failed with
\* it, and the first item's row is in its table while the second has none.
C17_Witness ==
    /\ ex.pc = "failed"
    /\ ex.error = "upsert"
    /\ ex.content = "{items:[bogus,padded,emptytext]}"
    /\ ex.idx = 3
    /\ ex.writes = 1
    /\ ex.embeds = 2
    /\ ItemStored(2)
    /\ RowsOf(tables, "preferences") = <<>>

\* C18: every row written through extractMemories carries as its hash the
\* numeral of the fold over layer + ":" + normalize(text) of the text the
\* row itself stores, also when the item's text is empty and its abstract
\* is not.
C18_HashOfStoredText ==
    \A l \in Layers : \A i \in 1..Len(RowsOf(tables, l)) :
        LET row == RowsOf(tables, l)[i]
        IN  /\ IsNumeral32(row.hash)
            /\ Decimal32(<<0, 0, 0, 0>>, row.hash) = FoldOf(l, row.text)

Acknowledged ==
    /\ Len(acks) = calls
    /\ \A i \in 1..Len(acks) : acks[i].returned = "queued"
    /\ \A n \in 1..Len(scheduled) : \E i \in 1..Len(acks) : acks[i].payload = scheduled[n]

\* C13: every autoExtractFromMessage call has returned the queued
\* acknowledgment in the step that schedules its extraction, in which no
\* extraction starts or advances; and no later step, such as the
\* extraction failing on the provider, the parse or an item, changes an
\* acknowledgment already returned.
C13_FireAndForget ==
    /\ []Acknowledged
    /\ [][/\ Len(acks') >= Len(acks)
          /\ SubSeq(acks', 1, Len(acks)) = acks
          /\ Len(acks') > Len(acks) =>
                /\ ex' = ex
                /\ tables' = tables
                /\ scheduled' = Append(scheduled, acks'[Len(acks')].payload)
          /\ (ex'.pc = "failed" /\ ex.pc # "failed") => acks' = acks]_vars

\* One scheduled extraction has failed on an item after another item was
\* written, a second request is acknowledged and still waits to start, and
\* both acknowledgments say queued.
C13_Witness ==
    /\ ex.pc = "failed"
    /\ ex.error \in {"embedding", "upsert"}
    /\ ex.writes >= 1
    /\ Len(acks) = 2
    /\ Len(scheduled) = 1
    /\ \A i \in 1..2 : acks[i].returned = "queued"
    /\ acks[1].payload = ex.payload

(***************************************************************************)
(* Properties of shouldExtractMemory                                       *)
(***************************************************************************)
\* The `now` of the owner's allowed calls that came before call c.
EarlierGrants(c) ==
    LET all == grants[gate[c].user]
    IN  IF gate[c].result THEN SubSeq(all, 1, Len(all) - 1) ELSE all

\* The owner's last-trigger time as call c met it.
LastTrigger(c) == EarlierGrants(c)[Len(EarlierGrants(c))]

\* Call c met an unexpired last-trigger record.
HasRecord(c) == gate[c].seen # <<>>

Elapsed(c) == gate[c].now - LastTrigger(c)

C4_OneGrantPerWindow ==
    minInterval > 0 =>
        \A u \in Users : \A i, j \in 1..Len(grants[u]) :
            i < j => grants[u][j] - grants[u][i] >= minInterval

\* A number below 2^32 as four bytes, least significant first.
Bytes32(n) == <<n % 256, (n \div 256) % 256, (n \div 65536) % 256, n \div 16777216>>

\* The entry holds `now` in decimal and runs out I seconds from this moment.
RecordsTrigger(entry, now) ==
    /\ IsNumeral32(entry.value)
    /\ Decimal32(<<0, 0, 0, 0>>, entry.value) = Bytes32(now)
    /\ entry.expires = seconds + minInterval

\* C15: an owner's last-trigger record changes only in the step by which a
\* call for that owner returns true with I > 0, and then it holds that
\* call's current time with expiry I; so a call that returns false leaves
\* the owner's record and its expiry as they were, and no call, allowed or
\* denied, touches the record of another owner.
C15_GateFrame ==
    [][/\ \A u \in Users : kv'[u] # kv[u] =>
              \E c \in GateCalls :
                  /\ gate[c].user = u
                  /\ gate[c].pc = "put"
                  /\ gate'[c].pc = "returned"
                  /\ gate'[c].result
          /\ \A d \in GateCalls :
                (gate[d].pc # "returned" /\ gate'[d].pc = "returned") =>
                    IF gate'[d].result /\ minInterval > 0
                    THEN /\ RecordsTrigger(kv'[gate'[d].user], gate'[d].now)
                         /\ gate'[d].now <= seconds
                         /\ \A o \in Users \ {gate'[d].user} : kv'[o] = kv[o]
                    ELSE kv' = kv]_vars

\* A call has been denied while its owner's record, written by an earlier
\* allowed call, is unexpired and as that call wrote it, and the other
\* owner has a record too.
C15_Witness ==
    \E c \in GateCalls :
        /\ gate[c].pc = "returned"
        /\ ~gate[c].result
        /\ gate[c].seen # <<>>
        /\ kv[gate[c].user].value = gate[c].seen
        /\ kv[gate[c].user].expires > seconds
        /\ ParseInt(gate[c].seen) = grants[gate[c].user][Len(grants[gate[c].user])]
        /\ \E u \in Users \ {gate[c].user} : kv[u].value # <<>>

\* C20: a queueMemoryExtraction call that has returned or thrown without
\* having submitted an extraction request (memory disabled, gate denied,
\* message without text, submission failed) has left the sender's
\* last-trigger record as it found it.
C20_GateChangesOnlyOnSubmit ==
    \A c \in GateCalls :
        (qm[c].pc \in {"returned", "threw"} /\ ~qm[c].submitted) =>
            kv[qm[c].user] = qm[c].before

(***************************************************************************)
(* Properties of memoryContext                                             *)
(***************************************************************************)
ItemsOfLayer(items, layer) == {n \in 1..Len(items) : items[n].layer = layer}

UserRows(layer, user) ==
    {i \in 1..Len(RowsOf(tables, layer)) :
        RowsOf(tables, layer)[i].telegramUserId = user}

\* C7: the items returned are in non-increasing order of score across all
\* layers, and every item carries the layer whose search produced it: a row
\* of that layer's table, of the querying owner, with that score.
C7_SortedByScore ==
    rq.pc = "done" =>
        /\ \A n \in 1..(Len(rq.items) - 1) : rq.items[n].score >= rq.items[n + 1].score
        /\ \A n \in 1..Len(rq.items) :
              /\ rq.items[n].layer \in Layers
              /\ \E i \in UserRows(rq.items[n].layer, rq.user) :
                    LET row == RowsOf(tables, rq.items[n].layer)[i]
                    IN  /\ row.text = rq.items[n].text
                        /\ row.abstract = rq.items[n].abstract
                        /\ Dot(row.embedding, rq.vector) = rq.items[n].score

\* The best match comes from preferences and outranks a match that the
\* first layer, identities, contributed.
C7_Witness ==
    /\ rq.pc = "done"
    /\ Len(rq.items) >= 2
    /\ rq.items[1].layer = "preferences"
    /\ \E n \in 2..Len(rq.items) :
          rq.items[n].layer = "identities" /\ rq.items[n].score < rq.items[1].score

\* C8: each layer contributes at most 3 items, so the merged sequence has
\* at most 18, however many rows the owner has in a layer.
C8_AtMostThreePerLayer ==
    rq.pc = "done" =>
        /\ \A l \in Layers : Cardinality(ItemsOfLayer(rq.items, l)) <= 3
        /\ Len(rq.items) <= 18

\* All six layers hold more than three rows of the owner and 18 items
\* come back.
C8_Witness ==
    /\ rq.pc = "done"
    /\ \A l \in Layers : Cardinality(UserRows(l, rq.user)) > 3
    /\ Len(rq.items) = 18

\* C9: a result is returned only when the embedding call and all six layer
\* searches have succeeded; once the embedding call or any one search has
\* failed the query fails as a whole and returns no items.
C9_AllOrNothing ==
    /\ rq.pc = "done" =>
          /\ Len(rq.vector) = embeddingDimensions
          /\ \A l \in Layers : rq.search[l] = "resolved"
    /\ (rq.error = "embedding" \/ \E l \in Layers : rq.search[l] = "rejected") =>
          /\ rq.pc = "failed"
          /\ rq.items = <<>>

\* One search has failed the query although another layer's search had
\* produced matches.
C9_Witness ==
    /\ rq.pc = "failed"
    /\ \E l \in Layers : rq.search[l] = "rejected"
    /\ \E l \in Layers : rq.search[l] = "resolved" /\ rq.results[l] # <<>>

\* The matches the layer searches gave, each named by its layer and its
\* rank in that layer's answer.
Matches == {e \in Layers \X (1..SearchLimit) : e[2] <= Len(rq.results[e[1]])}

MatchOf(e) == rq.results[e[1]][e[2]]

\* The order the completion order has no part in: higher score first, and
\* among equal scores the layer earlier in the registry, then the better
\* rank in its layer.
Precedes(e, f) ==
    \/ MatchOf(e).score > MatchOf(f).score
    \/ /\ MatchOf(e).score = MatchOf(f).score
       /\ \/ LayerIndex(e[1]) < LayerIndex(f[1])
          \/ e[1] = f[1] /\ e[2] < f[2]

PlaceOf(e) == 1 + Cardinality({f \in Matches : Precedes(f, e)})

\* C16: the sequence memoryContext returns is fixed by the answers of the
\* six searches alone, whatever the order in which they resolved: each
\* match stands at the place its score, its layer's place in the registry
\* and its rank give it, matches of equal score included.
C16_OrderIndependent ==
    rq.pc = "done" =>
        /\ Len(rq.items) = Cardinality(Matches)
        /\ \A e \in Matches :
              rq.items[PlaceOf(e)] =
                  [layer |-> e[1], text |-> MatchOf(e).record.text,
                   abstract |-> MatchOf(e).record.abstract,
                   tags |-> MatchOf(e).record.tags, score |-> MatchOf(e).score]

\* The search of personas resolved first and that of identities last, and
\* of two matches of equal score the one of identities is returned before
\* the one of personas.
C16_Witness ==
    /\ rq.pc = "done"
    /\ Len(completion) = 6
    /\ completion[1] = "personas"
    /\ completion[6] = "identities"
    /\ \E n, m \in 1..Len(rq.items) :
          /\ n < m
          /\ rq.items[n].score = rq.items[m].score
          /\ rq.items[n].layer = "identities"
          /\ rq.items[m].layer = "personas"

====
